---- MODULE Spec2Model ----
(***************************************************************************)
(* Model of src/puzzleGame/main.cpp: a 6 x 3 push puzzle.  The state is    *)
(* the Map object (per-cell flag bitmasks and the cached person position), *)
(* the global input character and the position of main's loop.  Each      *)
(* function of main's loop (draw, getInput, updateGame) is one action.     *)
(***************************************************************************)
EXTENDS Integers, Sequences, FiniteSets

(* ---------------- program constants ---------------- *)

Width == 6
Height == 3

None == 0
Object == 1
Person == 2
Goal == 4

CharW == 119
CharA == 97
CharS == 115
CharD == 100

CharHash == 35
CharSpace == 32
CharLowerO == 111
CharLowerP == 112
CharDot == 46

(* ---------------- bounds of the model ---------------- *)

\* the exact sequence of move calls is remembered for the first MaxCalls calls
MaxCalls == 4

(* ---------------- Vec2D ---------------- *)

Vec2D(x, y) == [x |-> x, y |-> y]

\* Vec2D::operator+
VecAdd(a, b) == Vec2D(a.x + b.x, a.y + b.y)

\* operator*(int, Vec2D)
VecScale(factor, self) == Vec2D(factor * self.x, factor * self.y)

(* ---------------- Flag ---------------- *)

\* (self & bit) != 0, for a single-bit flag
HasFlag(self, bit) == (self \div bit) % 2 = 1

\* self &= ~bit
ClearFlag(self, bit) == IF HasFlag(self, bit) THEN self - bit ELSE self

\* self |= bit
SetFlag(self, bit) == IF HasFlag(self, bit) THEN self ELSE self + bit

(* ---------------- Direction ---------------- *)

Direction == {"Up", "Down", "Left", "Right"}

\* dirToVec with the vector of Down copied into the case of Up
dirToVec_UpIsDown(dir) ==
    CASE dir = "Up" -> Vec2D(0, 1)
      [] dir = "Down" -> Vec2D(0, 1)
      [] dir = "Left" -> Vec2D(-1, 0)
      [] dir = "Right" -> Vec2D(1, 0)

\* dirToVec with the y axis pointing up
dirToVec_YUp(dir) ==
    CASE dir = "Up" -> Vec2D(0, 1)
      [] dir = "Down" -> Vec2D(0, -1)
      [] dir = "Left" -> Vec2D(-1, 0)
      [] dir = "Right" -> Vec2D(1, 0)

dirToVec(dir) ==
    CASE dir = "Up" -> Vec2D(0, -1)
      [] dir = "Down" -> Vec2D(0, 1)
      [] dir = "Left" -> Vec2D(-1, 0)
      [] dir = "Right" -> Vec2D(1, 0)

(* ---------------- Map ---------------- *)

\* the initializer of Map::_map, row by row
InitialLayout ==
    << None, Goal,   Goal,   None, Person, None,
       None, Object, Object, None, None,   None,
       None, None,   None,   None, None,   None >>

InitialMap == [i \in 0 .. (Width * Height - 1) |-> InitialLayout[i + 1]]

InitialPersonPos == Vec2D(4, 0)

\* the subscript Map::at computes.  The C++ expression is evaluated in
\* size_t; a mathematically negative value wraps to a value far above
\* Width * Height, so "inside the array" is the same test on both.
Index(pos) == pos.y * Width + pos.x

InArray(pos) == Index(pos) \in 0 .. (Width * Height - 1)

\* the value of at(pos); a subscript outside the array is undefined
\* behaviour and is reported through the ub fields below, the value
\* returned here is then never used
at(m, pos) == IF InArray(pos) THEN m[Index(pos)] ELSE None

\* at(pos) = v
Store(m, pos, v) == IF InArray(pos) THEN [m EXCEPT ![Index(pos)] = v] ELSE m

Access(op, pos) == [op |-> op, pos |-> pos]

\* the range test of calculateObjectLength on next.  The comparisons with
\* Width and Height are made in size_t, where a negative coordinate is a
\* huge value: the result is the same as with integers.
OutOfRange_OffByOne(next) ==
    next.x < 0 \/ Width < next.x \/ next.y < 0 \/ Height < next.y

OutOfRange(next) ==
    next.x < 0 \/ Width <= next.x \/ next.y < 0 \/ Height <= next.y

\* calculateObjectLength adding one to a negative result of the recursive
\* call instead of returning it
RECURSIVE calculateObjectLength_NoPropagate(_, _, _)
calculateObjectLength_NoPropagate(m, pos, dir) ==
    LET next == VecAdd(pos, dirToVec(dir))
        tested == << Access("check", next) >>
        fetched == << Access("check", next), Access("read", next) >>
    IN  IF OutOfRange(next)
        THEN [num |-> -1, log |-> tested, ub |-> FALSE]
        ELSE IF ~InArray(next)
        THEN [num |-> -1, log |-> fetched, ub |-> TRUE]
        ELSE IF HasFlag(at(m, next), Object)
        THEN LET prev == calculateObjectLength_NoPropagate(m, next, dir)
             IN  [num |-> prev.num + 1,
                  log |-> fetched \o prev.log,
                  ub |-> prev.ub]
        ELSE [num |-> 0, log |-> fetched, ub |-> FALSE]

\* Map::calculateObjectLength: the number of objects to push, negative when
\* the move is impossible; log lists the range tests and the cell accesses
\* in program order
RECURSIVE calculateObjectLength(_, _, _)
calculateObjectLength(m, pos, dir) ==
    LET next == VecAdd(pos, dirToVec(dir))
        tested == << Access("check", next) >>
        fetched == << Access("check", next), Access("read", next) >>
    IN  IF OutOfRange(next)
        THEN [num |-> -1, log |-> tested, ub |-> FALSE]
        ELSE IF ~InArray(next)
        THEN [num |-> -1, log |-> fetched, ub |-> TRUE]
        ELSE IF HasFlag(at(m, next), Object)
        THEN LET prev == calculateObjectLength(m, next, dir)
             IN  [num |-> IF prev.num < 0 THEN prev.num ELSE prev.num + 1,
                  log |-> fetched \o prev.log,
                  ub |-> prev.ub]
        ELSE [num |-> 0, log |-> fetched, ub |-> FALSE]

\* moveOnlyPerson leaving the Person flag on the old cell
moveOnlyPerson_KeepsOldPerson(m, person_pos, dir) ==
    LET m1 == Store(m, person_pos, at(m, person_pos))
        pos1 == VecAdd(person_pos, dirToVec(dir))
        m2 == Store(m1, pos1, ClearFlag(at(m1, pos1), Object))
        m3 == Store(m2, pos1, SetFlag(at(m2, pos1), Person))
    IN  [map |-> m3,
         pos |-> pos1,
         log |-> << Access("write", person_pos), Access("write", pos1),
                    Access("write", pos1) >>,
         ub |-> ~InArray(person_pos) \/ ~InArray(pos1)]

\* moveOnlyPerson assigning Person to the new cell instead of or-ing it
moveOnlyPerson_AssignsPerson(m, person_pos, dir) ==
    LET m1 == Store(m, person_pos, ClearFlag(at(m, person_pos), Person))
        pos1 == VecAdd(person_pos, dirToVec(dir))
        m2 == Store(m1, pos1, ClearFlag(at(m1, pos1), Object))
        m3 == Store(m2, pos1, Person)
    IN  [map |-> m3,
         pos |-> pos1,
         log |-> << Access("write", person_pos), Access("write", pos1),
                    Access("write", pos1) >>,
         ub |-> ~InArray(person_pos) \/ ~InArray(pos1)]

\* moveOnlyPerson leaving the Object flag on the new cell
moveOnlyPerson_KeepsObject(m, person_pos, dir) ==
    LET m1 == Store(m, person_pos, ClearFlag(at(m, person_pos), Person))
        pos1 == VecAdd(person_pos, dirToVec(dir))
        m2 == Store(m1, pos1, at(m1, pos1))
        m3 == Store(m2, pos1, SetFlag(at(m2, pos1), Person))
    IN  [map |-> m3,
         pos |-> pos1,
         log |-> << Access("write", person_pos), Access("write", pos1),
                    Access("write", pos1) >>,
         ub |-> ~InArray(person_pos) \/ ~InArray(pos1)]

\* Map::moveOnlyPerson
moveOnlyPerson(m, person_pos, dir) ==
    LET m1 == Store(m, person_pos, ClearFlag(at(m, person_pos), Person))
        pos1 == VecAdd(person_pos, dirToVec(dir))
        m2 == Store(m1, pos1, ClearFlag(at(m1, pos1), Object))
        m3 == Store(m2, pos1, SetFlag(at(m2, pos1), Person))
    IN  [map |-> m3,
         pos |-> pos1,
         log |-> << Access("write", person_pos), Access("write", pos1),
                    Access("write", pos1) >>,
         ub |-> ~InArray(person_pos) \/ ~InArray(pos1)]

\* move refusing only when the cell ahead is out of range, not the chain
move_ChecksFirstCellOnly(m, person_pos, dir) ==
    LET len == calculateObjectLength(m, person_pos, dir)
        num == len.num
        stepped == moveOnlyPerson(m, person_pos, dir)
        far == VecAdd(stepped.pos, VecScale(num, dirToVec(dir)))
    IN  IF len.ub
        THEN [map |-> m, pos |-> person_pos, num |-> num, log |-> len.log,
              ub |-> TRUE]
        ELSE IF OutOfRange(VecAdd(person_pos, dirToVec(dir)))
        THEN [map |-> m, pos |-> person_pos, num |-> num, log |-> len.log,
              ub |-> FALSE]
        ELSE IF num > 0
        THEN [map |-> Store(stepped.map, far,
                            SetFlag(at(stepped.map, far), Object)),
              pos |-> stepped.pos,
              num |-> num,
              log |-> len.log \o stepped.log \o << Access("write", far) >>,
              ub |-> stepped.ub \/ ~InArray(far)]
        ELSE [map |-> stepped.map, pos |-> stepped.pos, num |-> num,
              log |-> len.log \o stepped.log, ub |-> stepped.ub]

\* move putting the far object num cells from the position before the step
move_FarFromOldPos(m, person_pos, dir) ==
    LET len == calculateObjectLength(m, person_pos, dir)
        num == len.num
        stepped == moveOnlyPerson(m, person_pos, dir)
        far == VecAdd(person_pos, VecScale(num, dirToVec(dir)))
    IN  IF len.ub
        THEN [map |-> m, pos |-> person_pos, num |-> num, log |-> len.log,
              ub |-> TRUE]
        ELSE IF num < 0
        THEN [map |-> m, pos |-> person_pos, num |-> num, log |-> len.log,
              ub |-> FALSE]
        ELSE IF num # 0
        THEN [map |-> Store(stepped.map, far,
                            SetFlag(at(stepped.map, far), Object)),
              pos |-> stepped.pos,
              num |-> num,
              log |-> len.log \o stepped.log \o << Access("write", far) >>,
              ub |-> stepped.ub \/ ~InArray(far)]
        ELSE [map |-> stepped.map, pos |-> stepped.pos, num |-> num,
              log |-> len.log \o stepped.log, ub |-> stepped.ub]

\* move setting the far Object flag also when nothing is pushed
move_AlwaysSetsFar(m, person_pos, dir) ==
    LET len == calculateObjectLength(m, person_pos, dir)
        num == len.num
        stepped == moveOnlyPerson(m, person_pos, dir)
        far == VecAdd(stepped.pos, VecScale(num, dirToVec(dir)))
    IN  IF len.ub
        THEN [map |-> m, pos |-> person_pos, num |-> num, log |-> len.log,
              ub |-> TRUE]
        ELSE IF num < 0
        THEN [map |-> m, pos |-> person_pos, num |-> num, log |-> len.log,
              ub |-> FALSE]
        ELSE IF TRUE
        THEN [map |-> Store(stepped.map, far,
                            SetFlag(at(stepped.map, far), Object)),
              pos |-> stepped.pos,
              num |-> num,
              log |-> len.log \o stepped.log \o << Access("write", far) >>,
              ub |-> stepped.ub \/ ~InArray(far)]
        ELSE [map |-> stepped.map, pos |-> stepped.pos, num |-> num,
              log |-> len.log \o stepped.log, ub |-> stepped.ub]

\* move never setting the far Object flag
move_NeverSetsFar(m, person_pos, dir) ==
    LET len == calculateObjectLength(m, person_pos, dir)
        num == len.num
        stepped == moveOnlyPerson(m, person_pos, dir)
        far == VecAdd(stepped.pos, VecScale(num, dirToVec(dir)))
    IN  IF len.ub
        THEN [map |-> m, pos |-> person_pos, num |-> num, log |-> len.log,
              ub |-> TRUE]
        ELSE IF num < 0
        THEN [map |-> m, pos |-> person_pos, num |-> num, log |-> len.log,
              ub |-> FALSE]
        ELSE IF FALSE
        THEN [map |-> Store(stepped.map, far,
                            SetFlag(at(stepped.map, far), Object)),
              pos |-> stepped.pos,
              num |-> num,
              log |-> len.log \o stepped.log \o << Access("write", far) >>,
              ub |-> stepped.ub \/ ~InArray(far)]
        ELSE [map |-> stepped.map, pos |-> stepped.pos, num |-> num,
              log |-> len.log \o stepped.log, ub |-> stepped.ub]

\* Map::move
move(m, person_pos, dir) ==
    LET len == calculateObjectLength(m, person_pos, dir)
        num == len.num
        stepped == moveOnlyPerson(m, person_pos, dir)
        far == VecAdd(stepped.pos, VecScale(num, dirToVec(dir)))
    IN  IF len.ub
        THEN [map |-> m, pos |-> person_pos, num |-> num, log |-> len.log,
              ub |-> TRUE]
        ELSE IF num < 0
        THEN [map |-> m, pos |-> person_pos, num |-> num, log |-> len.log,
              ub |-> FALSE]
        ELSE IF num # 0
        THEN [map |-> Store(stepped.map, far,
                            SetFlag(at(stepped.map, far), Object)),
              pos |-> stepped.pos,
              num |-> num,
              log |-> len.log \o stepped.log \o << Access("write", far) >>,
              ub |-> stepped.ub \/ ~InArray(far)]
        ELSE [map |-> stepped.map, pos |-> stepped.pos, num |-> num,
              log |-> len.log \o stepped.log, ub |-> stepped.ub]

(* ---------------- input decoding ---------------- *)

\* the characters getInput is made to deliver: the four keys, and two
\* characters without a case in the switch ('W' and 'x')
CharUpperW == CharW - 32
CharX == CharW + 1
InputChars == {CharW, CharA, CharS, CharD, CharUpperW, CharX}

\* the switch of updateGame ignoring the case of the letter w
decode_AnyCaseW(c) ==
    CASE c = CharW \/ c = CharUpperW -> "Up"
      [] c = CharA -> "Left"
      [] c = CharS -> "Down"
      [] c = CharD -> "Right"
      [] OTHER -> "none"

\* the switch of updateGame: the direction of a character, "none" for the
\* default branch
decode(c) ==
    CASE c = CharW -> "Up"
      [] c = CharA -> "Left"
      [] c = CharS -> "Down"
      [] c = CharD -> "Right"
      [] OTHER -> "none"

(* ---------------- rendering ---------------- *)

\* toupper in the C locale
toupper(c) == IF c \in 97 .. 122 THEN c - 32 ELSE c

\* glyph printing every goal cell as an empty goal
glyph_GoalAlwaysDot(flag) ==
    LET c == IF HasFlag(flag, Object) THEN CharLowerO
             ELSE IF HasFlag(flag, Person) THEN CharLowerP
             ELSE CharSpace
    IN  IF HasFlag(flag, Goal)
        THEN CharDot
        ELSE c

\* the character draw prints for one cell
glyph(flag) ==
    LET c == IF HasFlag(flag, Object) THEN CharLowerO
             ELSE IF HasFlag(flag, Person) THEN CharLowerP
             ELSE CharSpace
    IN  IF HasFlag(flag, Goal)
        THEN IF c # CharSpace THEN toupper(c) ELSE CharDot
        ELSE c

\* the lines draw prints
drawLines(m) ==
    LET wall == [col \in 1 .. (Width + 2) |-> CharHash]
        line(row) == << CharHash >>
                     \o [col \in 1 .. Width |-> glyph(at(m, Vec2D(col - 1, row)))]
                     \o << CharHash >>
    IN  << wall >> \o [row \in 1 .. Height |-> line(row - 1)] \o << wall >>

(* ---------------- state ---------------- *)

VARIABLES
    _map,         \* Map::_map
    _person_pos,  \* Map::_person_pos
    input,        \* the global input
    pc,           \* the statement of main to run next
    screen,       \* the lines of the last draw
    ub,           \* an access outside _map has happened
    last,         \* the last updateGame: state before it and what it did
    calls         \* the directions move was called with, while at most MaxCalls

vars == << _map, _person_pos, input, pc, screen, ub, last, calls >>

NoCall(c, m, p) ==
    [called |-> FALSE, input |-> c, dir |-> "none", num |-> 0,
     map |-> m, pos |-> p, log |-> << >>]

Init ==
    /\ _map = InitialMap
    /\ _person_pos = InitialPersonPos
    /\ input = 0
    /\ pc = "draw"
    /\ screen = << >>
    /\ ub = FALSE
    /\ last = NoCall(0, InitialMap, InitialPersonPos)
    /\ calls = [n |-> 0, seq |-> << >>]

\* draw()
draw ==
    /\ pc = "draw"
    /\ ~ub
    /\ screen' = drawLines(_map)
    /\ pc' = "getInput"
    /\ UNCHANGED << _map, _person_pos, input, ub, last, calls >>

\* getInput(): std::cin >> input.  A failed extraction (end of input)
\* stores nothing and leaves input as it is.
getInput ==
    /\ pc = "getInput"
    /\ ~ub
    /\ \E c \in InputChars \cup {input} : input' = c
    /\ pc' = "updateGame"
    /\ UNCHANGED << _map, _person_pos, screen, ub, last, calls >>

Record(seq, dir) ==
    IF seq.n < MaxCalls
    THEN [n |-> seq.n + 1, seq |-> Append(seq.seq, dir)]
    ELSE [n |-> MaxCalls + 1, seq |-> << >>]

\* updateGame(), the default branch: no call of move
updateGameIgnore ==
    /\ pc = "updateGame"
    /\ ~ub
    /\ decode(input) = "none"
    /\ last' = NoCall(input, _map, _person_pos)
    /\ pc' = "draw"
    /\ UNCHANGED << _map, _person_pos, input, screen, ub, calls >>

\* updateGame(), one of the four cases: map.move(dir)
updateGameMove ==
    /\ pc = "updateGame"
    /\ ~ub
    /\ decode(input) # "none"
    /\ LET dir == decode(input)
           r == move(_map, _person_pos, dir)
       IN  /\ _map' = r.map
           /\ _person_pos' = r.pos
           /\ ub' = r.ub
           /\ last' = [called |-> TRUE, input |-> input, dir |-> dir,
                       num |-> r.num, map |-> _map, pos |-> _person_pos,
                       log |-> r.log]
           /\ calls' = Record(calls, dir)
    /\ pc' = "draw"
    /\ UNCHANGED << input, screen >>

Next == draw \/ getInput \/ updateGameIgnore \/ updateGameMove

Spec == Init /\ [][Next]_vars

(* ---------------- vocabulary of the properties ---------------- *)

Cells == 0 .. (Width * Height - 1)

InBounds(pos) == pos.x \in 0 .. (Width - 1) /\ pos.y \in 0 .. (Height - 1)

\* the cell k steps from pos in direction dir
Ahead(pos, dir, k) == VecAdd(pos, VecScale(k, dirToVec(dir)))

ObjectAt(m, pos) == InBounds(pos) /\ HasFlag(m[Index(pos)], Object)

ObjectCells(m) == {i \in Cells : HasFlag(m[i], Object)}

PersonCells(m) == {i \in Cells : HasFlag(m[i], Person)}

GoalCells(m) == {i \in Cells : HasFlag(m[i], Goal)}

MaxRun == IF Width > Height THEN Width ELSE Height

\* the k cells ahead of pos all hold objects
RunOf(m, pos, dir, k) == \A i \in 1 .. k : ObjectAt(m, Ahead(pos, dir, i))

\* the run of objects ahead of pos (possibly empty) reaches the board edge
Blocked(m, pos, dir) ==
    \E k \in 0 .. MaxRun :
        /\ RunOf(m, pos, dir, k)
        /\ ~InBounds(Ahead(pos, dir, k + 1))

\* exactly k objects ahead of pos, then an in-bounds cell without object
Pushable(m, pos, dir, k) ==
    /\ RunOf(m, pos, dir, k)
    /\ InBounds(Ahead(pos, dir, k + 1))
    /\ ~ObjectAt(m, Ahead(pos, dir, k + 1))

TypeOK ==
    /\ _map \in [Cells -> 0 .. 7]
    /\ pc \in {"draw", "getInput", "updateGame"}
    /\ ub \in BOOLEAN

(* ---------------- properties ---------------- *)

\* the number of object cells directly ahead of pos
RunLength(m, pos, dir) ==
    CHOOSE k \in 0 .. MaxRun :
        RunOf(m, pos, dir, k) /\ ~ObjectAt(m, Ahead(pos, dir, k + 1))

\* C1: a blocked move (the cell ahead is out of bounds, or the run of
\* objects ahead reaches the board edge) changes no cell's flags and not the
\* tracked position, and the same move is still blocked afterwards, so that
\* repeating it keeps the board as it was before the first call.
C1_BlockedMoveChangesNothing ==
    (last.called /\ Blocked(last.map, last.pos, last.dir))
        => /\ _map = last.map
           /\ _person_pos = last.pos
           /\ Blocked(_map, _person_pos, last.dir)

\* a move was refused because a run of two objects reaches the edge
C1_Witness ==
    /\ last.called
    /\ Blocked(last.map, last.pos, last.dir)
    /\ RunLength(last.map, last.pos, last.dir) = 2
    /\ _map = last.map

\* C2: in the initial state and after every move call exactly one cell has
\* the Person flag, and it is the cell of _person_pos.
C2_OnePersonAtTrackedPos ==
    /\ InBounds(_person_pos)
    /\ PersonCells(_map) = {Index(_person_pos)}

\* a pushing move has been made and the person is on its new cell
C2_Witness ==
    /\ last.called
    /\ last.num > 0
    /\ _person_pos # last.pos
    /\ PersonCells(_map) = {Index(_person_pos)}

\* the cells of the line through pos along dir, on the board
Line(pos, dir) ==
    {Index(Ahead(pos, dir, j)) : j \in {i \in (0 - MaxRun) .. MaxRun :
                                            InBounds(Ahead(pos, dir, i))}}

\* the cells from .. to steps ahead of pos
Stretch(pos, dir, from, to) == {Index(Ahead(pos, dir, j)) : j \in from .. to}

\* the last updateGame called move, and k objects followed by a free cell
\* were ahead of the person
Pushed(k) == last.called /\ Pushable(last.map, last.pos, last.dir, k)

\* C3 as stated: after a successful move with N > 0 chained objects, the
\* Object flag is set on the cell N steps from the position before the move.
C3_Original ==
    \A n \in 1 .. MaxRun :
        Pushed(n) => ObjectAt(_map, Ahead(last.pos, last.dir, n))

\* C3 amended: after a successful move with N > 0 chained objects, move has
\* counted N and the Object flag is set on the cell N + 1 steps from the
\* position before the move (N steps from the new position), a cell that
\* held no object before.
C3_FarObjectOnePastChain ==
    \A n \in 1 .. MaxRun :
        Pushed(n) =>
            /\ last.num = n
            /\ ObjectAt(_map, Ahead(last.pos, last.dir, n + 1))
            /\ ~ObjectAt(last.map, Ahead(last.pos, last.dir, n + 1))
            /\ Ahead(last.pos, last.dir, n + 1) = Ahead(_person_pos, last.dir, n)

\* one object has been pushed: the cell one step ahead now holds the person
C3_Witness ==
    /\ Pushed(1)
    /\ _person_pos = Ahead(last.pos, last.dir, 1)
    /\ ObjectAt(_map, Ahead(last.pos, last.dir, 2))
    /\ ~ObjectAt(_map, Ahead(last.pos, last.dir, 1))

\* C4 as stated: with K >= 1 objects ahead and then a free cell, the move
\* succeeds, the person is one cell ahead, and the object cells of the whole
\* line are exactly the old run shifted by one.
C4_Original ==
    \A k \in 1 .. MaxRun :
        Pushed(k) =>
            /\ _person_pos = Ahead(last.pos, last.dir, 1)
            /\ ObjectCells(_map) \cap Line(last.pos, last.dir)
                   = Stretch(last.pos, last.dir, 2, k + 1)

\* C4 amended: with K >= 1 objects ahead and then a free cell, the move
\* succeeds, the person is one cell ahead, the object cells among the K + 1
\* cells ahead of the old position are exactly the old run shifted by one,
\* and the Object flags of all other cells are as before.
C4_RunShiftedByOne ==
    \A k \in 1 .. MaxRun :
        Pushed(k) =>
            /\ last.num = k
            /\ _person_pos = Ahead(last.pos, last.dir, 1)
            /\ ObjectCells(last.map) \cap Stretch(last.pos, last.dir, 1, k + 1)
                   = Stretch(last.pos, last.dir, 1, k)
            /\ ObjectCells(_map) \cap Stretch(last.pos, last.dir, 1, k + 1)
                   = Stretch(last.pos, last.dir, 2, k + 1)
            /\ ObjectCells(_map) \ Stretch(last.pos, last.dir, 1, k + 1)
                   = ObjectCells(last.map) \ Stretch(last.pos, last.dir, 1, k + 1)

\* a run of two objects has been pushed one cell on
C4_Witness ==
    /\ Pushed(2)
    /\ _person_pos = Ahead(last.pos, last.dir, 1)
    /\ ObjectCells(_map) = Stretch(last.pos, last.dir, 2, 3)

\* the flags of cell i are the same before and after the last updateGame
SameFlags(i) == _map[i] = last.map[i]

\* C5: if the cell ahead of the person is on the board and holds no object,
\* the move succeeds; the old cell loses Person, the new cell gains Person,
\* no other flag of any cell changes, and no Object flag changes anywhere.
C5_PlainStepChangesTwoCells ==
    Pushed(0) =>
        LET old == Index(last.pos)
            new == Index(Ahead(last.pos, last.dir, 1))
        IN  /\ last.num = 0
            /\ _person_pos = Ahead(last.pos, last.dir, 1)
            /\ HasFlag(last.map[old], Person)
            /\ _map[old] = last.map[old] - Person
            /\ ~HasFlag(last.map[new], Person)
            /\ _map[new] = last.map[new] + Person
            /\ \A i \in Cells \ {old, new} : SameFlags(i)
            /\ ObjectCells(_map) = ObjectCells(last.map)

\* the person has stepped from a goal cell onto a plain free cell
C5_Witness ==
    /\ Pushed(0)
    /\ HasFlag(last.map[Index(last.pos)], Goal)
    /\ _person_pos = Ahead(last.pos, last.dir, 1)
    /\ _map # last.map

\* C6: the Goal flag of every cell is in every reachable state what it is in
\* the initial layout.
C6_GoalsNeverChange ==
    GoalCells(_map) = GoalCells(InitialMap)

\* an object has been pushed onto one goal cell and the person has entered
\* the other one
C6_Witness ==
    /\ last.called
    /\ last.num >= 0
    /\ \E i \in GoalCells(InitialMap) : HasFlag(_map[i], Object)
    /\ \E i \in GoalCells(InitialMap) : HasFlag(_map[i], Person)
    /\ \E i \in GoalCells(InitialMap) : _map[i] # last.map[i]

\* C7: the number of object cells is that of the initial layout (2), and an
\* Object flag differs before and after an updateGame only if it called move
\* with at least one object and then a free cell ahead of the person.
C7_ObjectsConserved ==
    /\ Cardinality(ObjectCells(InitialMap)) = 2
    /\ Cardinality(ObjectCells(_map)) = Cardinality(ObjectCells(InitialMap))
    /\ (ObjectCells(_map) # ObjectCells(last.map))
           => \E k \in 1 .. MaxRun : Pushed(k) /\ last.num = k

\* a push has moved an object, and the count is still two
C7_Witness ==
    /\ last.called
    /\ last.num > 0
    /\ ObjectCells(_map) # ObjectCells(last.map)
    /\ Cardinality(ObjectCells(_map)) = 2

\* the positions in log of the accesses with operation op
Positions(log, op) == {j \in 1 .. Len(log) : log[j].op = op}

\* C8: every coordinate at which move reads or writes a flag is on the
\* board (so no access leaves _map), every read in calculateObjectLength
\* directly follows the range test of the same coordinate, and a move that
\* succeeds makes the three writes of moveOnlyPerson, plus the far write
\* when it pushes.
C8_AccessesInBounds ==
    /\ ~ub
    /\ \A j \in 1 .. Len(last.log) :
           /\ (last.log[j].op \in {"read", "write"}) => InBounds(last.log[j].pos)
           /\ (last.log[j].op = "read") =>
                  /\ j > 1
                  /\ last.log[j - 1] = Access("check", last.log[j].pos)
    /\ Cardinality(Positions(last.log, "write"))
           = (IF ~last.called \/ last.num < 0 THEN 0
              ELSE IF last.num = 0 THEN 3 ELSE 4)

\* a push along an edge has written the far Object flag into a corner cell
C8_Witness ==
    /\ last.called
    /\ last.num > 0
    /\ Len(last.log) > 0
    /\ last.log[Len(last.log)].op = "write"
    /\ last.log[Len(last.log)].pos \in
           {Vec2D(0, 0), Vec2D(Width - 1, 0), Vec2D(0, Height - 1),
            Vec2D(Width - 1, Height - 1)}

\* the state after the move calls seq, while they are remembered
After(seq) == calls.n = Len(seq) /\ calls.seq = seq

\* C9: from the initial layout, move(Left) puts the person at (3,0) and
\* changes no Object flag; after then Down and Left both objects are one
\* cell further left, at (0,1) and (1,1), with the person at (2,1); a second
\* Left is refused and leaves person and objects where they are.
C9_ReferenceScenario ==
    /\ After(<< "Left" >>) =>
           /\ _person_pos = Vec2D(3, 0)
           /\ last.called => last.num = 0
           /\ ObjectCells(_map) = {Index(Vec2D(1, 1)), Index(Vec2D(2, 1))}
    /\ After(<< "Left", "Down", "Left" >>) =>
           /\ _person_pos = Vec2D(2, 1)
           /\ last.called => last.num = 2
           /\ ObjectCells(_map) = {Index(Vec2D(0, 1)), Index(Vec2D(1, 1))}
    /\ After(<< "Left", "Down", "Left", "Left" >>) =>
           /\ _person_pos = Vec2D(2, 1)
           /\ last.called => last.num < 0
           /\ _map = last.map
           /\ ObjectCells(_map) = {Index(Vec2D(0, 1)), Index(Vec2D(1, 1))}

\* the four moves of the scenario have been made
C9_Witness ==
    /\ After(<< "Left", "Down", "Left", "Left" >>)
    /\ last.called
    /\ last.num < 0
    /\ _person_pos = Vec2D(2, 1)

\* C10: updateGame calls move exactly for 'w' (Up), 'a' (Left), 's' (Down)
\* and 'd' (Right); for any other character it calls nothing and leaves the
\* board and the person position as they were.
C10_OnlyWasdMove ==
    /\ last.called <=> last.input \in {CharW, CharA, CharS, CharD}
    /\ last.called =>
           \/ last.input = CharW /\ last.dir = "Up"
           \/ last.input = CharA /\ last.dir = "Left"
           \/ last.input = CharS /\ last.dir = "Down"
           \/ last.input = CharD /\ last.dir = "Right"
    /\ ~last.called => _map = last.map /\ _person_pos = last.pos

\* after some moves an upper-case W was entered and ignored
C10_Witness ==
    /\ pc = "draw"
    /\ calls.n > 0
    /\ last.input = CharUpperW
    /\ ~last.called
    /\ _map = last.map

\* the coordinates of the board
BoardPositions == {Vec2D(x, y) : x \in 0 .. (Width - 1), y \in 0 .. (Height - 1)}

\* the last updateGame changed the map or the person position
Mutated == _map # last.map \/ _person_pos # last.pos

\* C11: on every reachable board, for every start position on the board and
\* every direction, calculateObjectLength returns K >= 0 exactly when the K
\* cells ahead hold objects and the next one is on the board without object,
\* and a negative value exactly when the run of objects ahead reaches the
\* edge; move changes the state if and only if the result is not negative.
\* (Every board the program reaches is drawn before the next input is read,
\* so the boards are examined where pc = "getInput".)
C11_LengthCharacterised ==
    /\ pc = "getInput" =>
           \A pos \in BoardPositions, dir \in Direction :
               LET num == calculateObjectLength(_map, pos, dir).num
               IN  /\ \A k \in 0 .. MaxRun :
                          (num = k) <=> Pushable(_map, pos, dir, k)
                   /\ (num < 0) <=> Blocked(_map, pos, dir)
                   /\ num \in -1 .. MaxRun
    /\ last.called => (Mutated <=> last.num >= 0)

\* a move has pushed two objects, and they now form a run that reaches the
\* edge, for which the result is negative
C11_Witness ==
    /\ last.called
    /\ last.num = 2
    /\ Mutated
    /\ Blocked(_map, _person_pos, last.dir)
    /\ calculateObjectLength(_map, _person_pos, last.dir).num < 0

\* the coordinates calculateObjectLength was entered for, in order
Visited(log) == SelectSeq(log, LAMBDA a : a.op = "check")

\* C12: the chain resolution of a move ends: it makes one recursive call
\* per object of the run ahead of the person and no other, visits no cell
\* twice, ends at a cell on the board without object or at a coordinate off
\* the board, and its depth never exceeds max(Width, Height).
C12_RecursionBounded ==
    last.called =>
        LET visited == Visited(last.log)
            depth == Len(visited) - 1
            end == visited[Len(visited)].pos
        IN  /\ Len(visited) >= 1
            /\ depth = RunLength(last.map, last.pos, last.dir)
            /\ \A j \in 1 .. Len(visited) :
                   visited[j].pos = Ahead(last.pos, last.dir, j)
            /\ \A i, j \in 1 .. Len(visited) :
                   visited[i].pos = visited[j].pos => i = j
            /\ \/ InBounds(end) /\ ~ObjectAt(last.map, end) /\ last.num = depth
               \/ ~InBounds(end) /\ last.num < 0
            /\ depth <= MaxRun
            /\ Len(visited) <= MaxRun

\* the resolution went through a run of two objects and ended off the board
C12_Witness ==
    /\ last.called
    /\ Len(Visited(last.log)) = 3
    /\ ~InBounds(Visited(last.log)[3].pos)
    /\ last.num < 0

\* C13: a successful move that pushes N >= 1 objects changes the flags of
\* exactly three cells of the line of movement: the old cell of the person
\* loses Person, the new cell loses Object and gains Person, the first cell
\* beyond the chain gains Object; every other cell keeps its flags.
C13_PushChangesThreeCells ==
    \A n \in 1 .. MaxRun :
        Pushed(n) =>
            LET old == Index(last.pos)
                new == Index(Ahead(last.pos, last.dir, 1))
                far == Index(Ahead(last.pos, last.dir, n + 1))
            IN  /\ Cardinality({old, new, far}) = 3
                /\ {i \in Cells : ~SameFlags(i)} = {old, new, far}
                /\ {old, new, far} \subseteq Line(last.pos, last.dir)
                /\ HasFlag(last.map[old], Person)
                /\ _map[old] = last.map[old] - Person
                /\ HasFlag(last.map[new], Object)
                /\ ~HasFlag(last.map[new], Person)
                /\ _map[new] = last.map[new] - Object + Person
                /\ ~HasFlag(last.map[far], Object)
                /\ _map[far] = last.map[far] + Object
                /\ \A i \in Stretch(last.pos, last.dir, 2, n) :
                       SameFlags(i) /\ HasFlag(_map[i], Object)

\* two objects have been pushed: the cell between the new cell of the
\* person and the far cell is inside the chain and is unchanged
C13_Witness ==
    /\ Pushed(2)
    /\ _person_pos = Ahead(last.pos, last.dir, 1)
    /\ SameFlags(Index(Ahead(last.pos, last.dir, 2)))
    /\ ~SameFlags(Index(Ahead(last.pos, last.dir, 3)))

\* C14: in every reachable state no cell has both the Object and the Person
\* flag.
C14_PersonNeverOnObject ==
    \A i \in Cells : ~(HasFlag(_map[i], Object) /\ HasFlag(_map[i], Person))

\* the person stands on a cell that held an object before the last move
C14_Witness ==
    /\ last.called
    /\ last.num > 0
    /\ HasFlag(last.map[Index(_person_pos)], Object)
    /\ HasFlag(_map[Index(_person_pos)], Person)
    /\ ~HasFlag(_map[Index(_person_pos)], Object)

Opposite(dir) ==
    CASE dir = "Up" -> "Down"
      [] dir = "Down" -> "Up"
      [] dir = "Left" -> "Right"
      [] dir = "Right" -> "Left"

\* C15: if the last move succeeded without pushing (N = 0), a move in the
\* opposite direction made now succeeds with N = 0 as well and gives back
\* the map and the person position from before the first move; when the two
\* moves are the only ones made, that is the initial layout.
C15_PlainStepRoundTrip ==
    /\ (last.called /\ last.num = 0) =>
           LET back == move(_map, _person_pos, Opposite(last.dir))
           IN  /\ _person_pos # last.pos
               /\ back.num = 0
               /\ back.map = last.map
               /\ back.pos = last.pos
    /\ \A dir \in Direction :
           (/\ After(<< dir, Opposite(dir) >>)
            /\ Pushable(InitialMap, InitialPersonPos, dir, 0))
               => _map = InitialMap /\ _person_pos = InitialPersonPos

\* the person has stepped down from the initial layout and up again
C15_Witness ==
    /\ After(<< "Down", "Up" >>)
    /\ last.called
    /\ last.num = 0
    /\ _map = InitialMap
    /\ _person_pos = InitialPersonPos

Corners ==
    {Vec2D(0, 0), Vec2D(Width - 1, 0), Vec2D(0, Height - 1),
     Vec2D(Width - 1, Height - 1)}

\* C16: a corner cell that holds an object holds it after every step of the
\* program, hence in every later state.
C16_CornerObjectStays ==
    [][\A c \in Corners :
           HasFlag(_map[Index(c)], Object) => HasFlag(_map'[Index(c)], Object)]_vars

\* a move towards an object in a corner has been refused
C16_Witness ==
    /\ last.called
    /\ last.num < 0
    /\ Ahead(last.pos, last.dir, 1) \in Corners
    /\ ObjectAt(_map, Ahead(last.pos, last.dir, 1))

\* the character on the screen for the cell at column x, row y
OnScreen(x, y) == screen[y + 2][x + 2]

\* C17: the glyph drawn for a cell is given by its flags: ' ' for none,
\* 'o' for an object off goal, 'p' for the person off goal, 'O' for an
\* object on a goal, 'P' for the person on a goal, '.' for a goal alone; and
\* exactly one cell of the drawn grid shows 'p' or 'P'.  (The screen shows
\* the current map from draw until updateGame.)
C17_GlyphsFollowFlags ==
    pc # "draw" =>
        /\ \A pos \in BoardPositions :
               LET flag == _map[Index(pos)]
                   obj == HasFlag(flag, Object)
                   per == HasFlag(flag, Person)
                   goal == HasFlag(flag, Goal)
                   c == OnScreen(pos.x, pos.y)
               IN  /\ (~obj /\ ~per /\ ~goal) => c = 32
                   /\ (obj /\ ~goal) => c = 111
                   /\ (per /\ ~goal) => c = 112
                   /\ (obj /\ goal) => c = 79
                   /\ (per /\ goal) => c = 80
                   /\ (~obj /\ ~per /\ goal) => c = 46
                   /\ c = glyph(flag)
        /\ Cardinality({pos \in BoardPositions :
                            OnScreen(pos.x, pos.y) \in {112, 80}}) = 1

\* the screen shows the person on one goal, an object on the other, and the
\* second object off goal
C17_Witness ==
    /\ pc = "getInput"
    /\ \E pos \in BoardPositions : OnScreen(pos.x, pos.y) = 80
    /\ \E pos \in BoardPositions : OnScreen(pos.x, pos.y) = 79
    /\ \E pos \in BoardPositions : OnScreen(pos.x, pos.y) = 111
    /\ \A pos \in BoardPositions : OnScreen(pos.x, pos.y) # 46

====
